---- MODULE Spec2Model ----
(***************************************************************************)
(* Model of the speech-recognition GUI of src/test.py                      *)
(* (class SpeechRecognitionGUI): the dump scheduler (countdown, manual     *)
(* dump, timer toggle, outbound LLM request threads) and the audio capture *)
(* loop (bounded queue, stream callback, capture thread).                  *)
(*                                                                         *)
(* Strings are sequences of one-character strings, so that strip() and     *)
(* concatenation are computed as Python computes them.                     *)
(*                                                                         *)
(* The GUI toolkit is outside the repository: a call of a widget method    *)
(* that the source makes inside a try block either returns or raises, and  *)
(* both outcomes are modelled.                                             *)
(*                                                                         *)
(* Spec is the dump scheduler: the main-thread handlers are atomic (they   *)
(* run on the one GUI thread) and the capture thread appears through its   *)
(* append to transcribed_text. SpecAudio is the capture side: the start    *)
(* and stop clicks, the capture threads and the stream callbacks, one step *)
(* per access to the shared flag or queue.                                 *)
(***************************************************************************)
EXTENDS Integers, Sequences, FiniteSets, TLC

\* ---------------------------------------------------------------- bounds
\* Largest number of single-shot ticks pending at once.
MaxPending == 2
\* Largest number of finalized utterances appended during one run.
MaxUtterances == 2
\* Saturation of the tick and dump counters (instrumentation).
MaxTicks == 123
MaxDumps == 2

\* Largest number of capture threads started during one run.
MaxThreads == 2
\* Largest number of run_test threads of one endpoint in flight at once.
MaxProbes == 2

\* ------------------------------------------------------- program constants
\* self.dump_interval = 120
dump_interval == 120
\* queue.Queue(maxsize=20)
maxsize == 20

Min(a, b) == IF a < b THEN a ELSE b

\* ----------------------------------------------------------------- strings
Whitespace == {" ", "\n", "\t"}

RECURSIVE lstrip(_)
lstrip(s) == IF s # <<>> /\ Head(s) \in Whitespace THEN lstrip(Tail(s)) ELSE s

RECURSIVE rstrip(_)
rstrip(s) ==
    IF s # <<>> /\ s[Len(s)] \in Whitespace
    THEN rstrip(SubSeq(s, 1, Len(s) - 1))
    ELSE s

\* str.strip()
strip(s) == rstrip(lstrip(s))

\* The texts the recognizer returns in result_dict.get("text", ""): the
\* empty text, or words joined by single blanks.
RecognizerTexts == { <<>>, <<"a", " ", "b">> }

\* ------------------------------------------------------------------- state
VARIABLES
    time_remaining,     \* self.time_remaining
    timer_running,      \* self.timer_running
    timer_enabled,      \* self.timer_enabled
    transcribed_text,   \* self.transcribed_text
    pending_ticks,      \* PyQtTimer.singleShot(1000, self.update_timer) calls
                        \* not yet fired, oldest first; "stale" marks a tick
                        \* scheduled before a toggle-off
    llm_threads,        \* request threads started by request_llm_in_thread
                        \* whose requests.post has not returned: their data
    llm_log,            \* messages logged by the last finished make_request
    utterances,         \* number of utterances appended so far
    auto,               \* no manual dump and no timer toggle since launch
    ticks,              \* decrements of time_remaining while auto
    dumps,              \* calls of dump_text_to_llm while auto
    selected_mic,       \* self.selected_mic
    selected_model,     \* self.selected_model
    config_file,        \* what save_config has written to config.json
                        \* during this run (empty: nothing yet)
    listening,          \* self.listening
    audio_queue,        \* self.audio_queue
    spawned,            \* number of capture threads started; self.audio_thread
                        \* is the last of them
    pc,                 \* position of each capture thread in audio_processing
    cb,                 \* position of each input stream's audio_callback
    stop_seen,          \* per capture thread: a stop click has set listening
                        \* to false while the thread was in its streaming loop
                        \* and the thread has not tested the flag since
    dump_pc,            \* position of the main thread inside a dump taken
                        \* statement by statement: "idle", "read" (the guard
                        \* of line 380 passed), "clear" (the request thread
                        \* is started, line 385 not yet executed)
    append_pc,          \* the capture thread's self.transcribed_text += ...:
                        \* empty, or the value it has loaded and not yet
                        \* stored back
    api_status,         \* text of each endpoint's status label
    probes,             \* per endpoint: the run_test threads in flight
    probe_timers,       \* per endpoint: pending singleShot(600000, ...) calls
    probe_seen,         \* per endpoint: the outcome behind the posted status
    fn_call             \* a call of an LLM request path: its inputs and the
                        \* messages it has emitted (empty: no call)

timer_vars == << time_remaining, timer_running, timer_enabled, pending_ticks,
                 llm_threads, llm_log, auto, ticks, dumps >>

capture_vars_but_pc == << selected_mic, selected_model, config_file, listening,
                          audio_queue, spawned, cb, stop_seen >>

capture_vars == << selected_mic, selected_model, config_file, listening,
                   audio_queue, spawned, pc, cb, stop_seen >>

race_vars == << dump_pc, append_pc >>

probe_vars == << api_status, probes, probe_timers, probe_seen >>

other_vars == << dump_pc, append_pc, api_status, probes, probe_timers,
                 probe_seen, fn_call >>

vars == << time_remaining, timer_running, timer_enabled, transcribed_text,
           pending_ticks, llm_threads, llm_log, utterances, auto, ticks, dumps,
           selected_mic, selected_model, config_file, listening, audio_queue,
           spawned, pc, cb, stop_seen, dump_pc, append_pc, api_status, probes,
           probe_timers, probe_seen, fn_call >>

\* The fields the main-thread handlers read and write, as one record.
Cur ==
    [ time_remaining   |-> time_remaining,
      timer_running    |-> timer_running,
      timer_enabled    |-> timer_enabled,
      transcribed_text |-> transcribed_text,
      pending_ticks    |-> pending_ticks,
      llm_threads      |-> llm_threads,
      ticks            |-> ticks,
      dumps            |-> dumps ]

\* ------------------------------------------------------------ dump scheduler
\* The content is sent stripped.
dump_data_stripped(text) ==
    [ messages |-> << [ role |-> "user", content |-> strip(text) ] >> ]

\* data = {"messages": [{"role": "user", "content": self.transcribed_text}]}
dump_data(text) == [ messages |-> << [ role |-> "user", content |-> text ] >> ]

\* request_llm_in_thread(data): starts one thread that posts data.
request_llm_in_thread(s, data) ==
    [ s EXCEPT !.llm_threads = Append(@, data) ]

\* if self.transcribed_text.strip():
dump_guard(s) == strip(s.transcribed_text) # <<>>

\* self.transcribed_text = ""  # Clear text after dump
clear_text(s) == [ s EXCEPT !.transcribed_text = <<>> ]

\* self.time_remaining = self.dump_interval
reset_countdown(s) == [ s EXCEPT !.time_remaining = dump_interval ]

\* PyQtTimer.singleShot(1000, self.update_timer)
schedule_tick(s) == [ s EXCEPT !.pending_ticks = Append(@, "fresh") ]

RECURSIVE update_timer(_), dump_text_to_llm(_)

update_timer(s) ==
    IF s.timer_running /\ s.timer_enabled
    THEN LET s1 == [ s EXCEPT !.time_remaining = @ - 1,
                              !.ticks = Min(@ + 1, MaxTicks) ]
         IN  IF s1.time_remaining <= 0
             THEN dump_text_to_llm(s1)
             ELSE schedule_tick(s1)
    ELSE s

dump_text_to_llm(s) ==
    LET s0 == [ s EXCEPT !.dumps = Min(@ + 1, MaxDumps) ]
        s1 == IF dump_guard(s0)
              THEN clear_text(request_llm_in_thread(s0, dump_data(s0.transcribed_text)))
              ELSE s0
        s2 == reset_countdown(s1)
    IN  IF s2.timer_enabled
        THEN update_timer([ s2 EXCEPT !.timer_running = TRUE ])
        ELSE s2

\* manual_dump without its own reset of the countdown.
manual_dump_no_reset(s) == dump_text_to_llm(s)

manual_dump(s) ==
    LET s1 == dump_text_to_llm(s)
    IN  IF s1.timer_enabled
        THEN [ s1 EXCEPT !.timer_running = TRUE,
                         !.time_remaining = dump_interval ]
        ELSE s1

\* Every tick pending at a toggle-off was scheduled before it.
mark_stale(p) == [ i \in 1..Len(p) |-> "stale" ]

toggle_timer(s) ==
    IF s.timer_enabled
    THEN [ s EXCEPT !.timer_enabled = FALSE,
                    !.timer_running = FALSE,
                    !.pending_ticks = mark_stale(@) ]
    ELSE update_timer([ s EXCEPT !.timer_enabled = TRUE,
                                 !.time_remaining = dump_interval,
                                 !.timer_running = TRUE ])

\* The fields after __init__ has set them and before it calls update_timer.
InitFields ==
    [ time_remaining   |-> dump_interval,
      timer_running    |-> TRUE,
      timer_enabled    |-> TRUE,
      transcribed_text |-> <<>>,
      pending_ticks    |-> <<>>,
      llm_threads      |-> <<>>,
      ticks            |-> 0,
      dumps            |-> 0 ]

\* Writes the record s back to the variables; a is the new value of auto.
Store(s, a) ==
    /\ time_remaining'   = s.time_remaining
    /\ timer_running'    = s.timer_running
    /\ timer_enabled'    = s.timer_enabled
    /\ transcribed_text' = s.transcribed_text
    /\ pending_ticks'    = s.pending_ticks
    /\ llm_threads'      = s.llm_threads
    /\ auto'             = a
    /\ ticks'            = IF a THEN s.ticks ELSE 0
    /\ dumps'            = IF a THEN s.dumps ELSE 0

\* The absent selection (Python's None).
NoneValue == << "None" >>

\* An entry of the microphone list, f"{idx}: {dev['name']}".
MicEntry == << "0", ":", " ", "M" >>

\* An entry of the model list (a subdirectory of the model folder).
ModelEntry == << "m" >>

\* What load_config leaves in selected_mic and selected_model: an entry of
\* the list, or None when the saved value was not taken.
LoadedMics == { NoneValue, MicEntry }
LoadedModels == { NoneValue, ModelEntry }

Threads == 1..MaxThreads

\* API_ENDPOINTS (name and method of each entry).
API_ENDPOINTS ==
    << [ name |-> "Models",           method |-> "GET" ],
       [ name |-> "Chat Completions", method |-> "POST" ],
       [ name |-> "Completions",      method |-> "POST" ],
       [ name |-> "Embeddings",       method |-> "POST" ] >>

\* The indices enumerate(API_ENDPOINTS) yields, from 1.
Endpoints == 1..Len(API_ENDPOINTS)

\* A run_test thread at its start: success = True, request not yet made.
NewProbe == [ pc |-> "request", success |-> TRUE ]

Init ==
    LET s == update_timer(InitFields)
    IN  /\ time_remaining   = s.time_remaining
        /\ timer_running    = s.timer_running
        /\ timer_enabled    = s.timer_enabled
        /\ transcribed_text = s.transcribed_text
        /\ pending_ticks    = s.pending_ticks
        /\ llm_threads      = s.llm_threads
        /\ llm_log          = <<>>
        /\ utterances       = 0
        /\ auto             = TRUE
        /\ ticks            = s.ticks
        /\ dumps            = s.dumps
        /\ selected_mic     \in LoadedMics
        /\ selected_model   \in LoadedModels
        /\ config_file      = <<>>
        /\ listening        = FALSE
        /\ audio_queue      = <<>>
        /\ spawned          = 0
        /\ pc               = [ t \in Threads |-> "unstarted" ]
        /\ cb               = [ t \in Threads |-> "closed" ]
        /\ stop_seen        = [ t \in Threads |-> FALSE ]
        /\ dump_pc          = "idle"
        /\ append_pc        = <<>>
        /\ api_status       = [ e \in Endpoints |-> << "Checking..." >> ]
        /\ probes           = [ e \in Endpoints |-> << NewProbe >> ]
        /\ probe_timers     = [ e \in Endpoints |-> 0 ]
        /\ probe_seen       = [ e \in Endpoints |-> <<>> ]
        /\ fn_call          = <<>>

\* The oldest pending single-shot fires: Qt removes it and calls update_timer.
Tick ==
    /\ pending_ticks # <<>>
    /\ Store(update_timer([ Cur EXCEPT !.pending_ticks = Tail(@) ]), auto)
    /\ UNCHANGED << llm_log, utterances >>
    /\ UNCHANGED capture_vars
    /\ UNCHANGED other_vars

\* Click on "Manually Dump".
ManualDump ==
    /\ Len(manual_dump(Cur).pending_ticks) <= MaxPending
    /\ Store(manual_dump(Cur), FALSE)
    /\ UNCHANGED << llm_log, utterances >>
    /\ UNCHANGED capture_vars
    /\ UNCHANGED other_vars

\* Click on the timer toggle button.
ToggleTimer ==
    /\ Len(toggle_timer(Cur).pending_ticks) <= MaxPending
    /\ Store(toggle_timer(Cur), FALSE)
    /\ UNCHANGED << llm_log, utterances >>
    /\ UNCHANGED capture_vars
    /\ UNCHANGED other_vars

\* text = result_dict.get("text", ""); if text: self.transcribed_text += text + "\n"
append_text(buf, text) == IF text # <<>> THEN buf \o text \o <<"\n">> ELSE buf

\* The capture thread finalizes an utterance, seen from the dump scheduler:
\* the only field the two share is transcribed_text.
Recognize ==
    /\ utterances < MaxUtterances
    /\ \E text \in RecognizerTexts :
          /\ transcribed_text' = append_text(transcribed_text, text)
          /\ utterances' = IF text # <<>> THEN utterances + 1 ELSE utterances
    /\ UNCHANGED timer_vars
    /\ UNCHANGED capture_vars
    /\ UNCHANGED other_vars

\* The outcomes of requests.post in make_request.
Outcomes == { "200", "non200", "exception" }

\* What make_request logs for an outcome; shown tells whether the call
\* self.llm_response_area.append(...) returned normally (it is inside the
\* try block, so its exception is logged by the except clause).
make_request_log(outcome, shown) ==
    CASE outcome = "200"       -> IF shown
                                  THEN << "Useful information extracted" >>
                                  ELSE << "Useful information extracted",
                                          "Error sending to LLM" >>
      [] outcome = "non200"    -> << "Error in LLM API request." >>
      [] outcome = "exception" -> << "Error sending to LLM" >>

RemoveAt(q, i) == SubSeq(q, 1, i - 1) \o SubSeq(q, i + 1, Len(q))

\* A request thread's requests.post returns or raises, and the thread ends.
LlmResponse ==
    /\ \E i \in 1..Len(llm_threads), outcome \in Outcomes, shown \in BOOLEAN :
          /\ llm_threads' = RemoveAt(llm_threads, i)
          /\ llm_log' = make_request_log(outcome, shown)
    /\ UNCHANGED << time_remaining, timer_running, timer_enabled, transcribed_text,
                    pending_ticks, utterances, auto, ticks, dumps >>
    /\ UNCHANGED capture_vars
    /\ UNCHANGED other_vars

Next == Tick \/ ManualDump \/ ToggleTimer \/ Recognize \/ LlmResponse

Spec == Init /\ [][Next]_vars

\* ------------------------------------------------------------ audio capture
Digits == { "0", "1", "2", "3", "4", "5", "6", "7", "8", "9" }

\* mic_value.split(":")[0]
RECURSIVE before_colon(_)
before_colon(str) ==
    IF str = <<>> \/ Head(str) = ":"
    THEN <<>>
    ELSE << Head(str) >> \o before_colon(Tail(str))

\* int(mic_value.split(":")[0]) returns: None has no split, and int() takes
\* a non-empty run of digits.
mic_parses(mic) ==
    /\ mic # NoneValue
    /\ before_colon(mic) # <<>>
    /\ \A i \in 1..Len(before_colon(mic)) : before_colon(mic)[i] \in Digits

\* bytes(indata): the program never looks into a block.
Block == "block"

\* audio_queue.full()
full(q) == Len(q) >= maxsize

\* audio_queue.put(item) with no free slot, if the queue did not bound itself.
put_ready_unbounded(q) == TRUE

\* audio_queue.put(item) is a blocking put: it proceeds once a slot is free.
put_ready(q) == Len(q) < maxsize

\* The positions of the streaming loop (while self.listening: ...).
Streaming == { "loop", "get", "accept" }

\* config = {"microphone": self.selected_mic, "model": self.selected_model}
save_config(file, written) ==
    IF written
    THEN << [ microphone |-> selected_mic, model |-> selected_model ] >>
    ELSE file

\* d.get(key, default) on a JSON object.
dict_get(config, key, default) ==
    IF key \in DOMAIN config THEN config[key] ELSE default

\* saved_mic = config.get("microphone", "")
saved_mic(config) == dict_get(config, "microphone", <<>>)

\* saved_model = config.get("models", "")
saved_model(config) == dict_get(config, "models", <<>>)

\* Click on the start/stop button.
ToggleListening ==
    /\ IF ~listening
       THEN /\ spawned < MaxThreads
            /\ \E written \in BOOLEAN :
                  config_file' = save_config(config_file, written)
            /\ listening' = TRUE
            /\ spawned' = spawned + 1
            /\ pc' = [ pc EXCEPT ![spawned + 1] = "setup" ]
            /\ UNCHANGED stop_seen
       ELSE /\ listening' = FALSE
            /\ stop_seen' = [ t \in Threads |-> stop_seen[t] \/ pc[t] \in Streaming ]
            /\ UNCHANGED << config_file, spawned, pc >>
    /\ UNCHANGED << selected_mic, selected_model, audio_queue, cb >>
    /\ UNCHANGED << transcribed_text, utterances >>
    /\ UNCHANGED timer_vars
    /\ UNCHANGED other_vars

\* audio_processing up to the recognizer's construction (lines 305-328).
\* exists: os.path.exists(model_dir); loads: Model and KaldiRecognizer
\* construct. os.path.join with a None model raises outside every try.
Setup(t) ==
    /\ pc[t] = "setup"
    /\ IF ~mic_parses(selected_mic)
       THEN /\ listening' = FALSE
            /\ pc' = [ pc EXCEPT ![t] = "done" ]
       ELSE IF selected_model = NoneValue
       THEN /\ pc' = [ pc EXCEPT ![t] = "dead" ]
            /\ UNCHANGED listening
       ELSE \E exists \in BOOLEAN, loads \in BOOLEAN :
               IF exists /\ loads
               THEN /\ pc' = [ pc EXCEPT ![t] = "open" ]
                    /\ UNCHANGED listening
               ELSE /\ listening' = FALSE
                    /\ pc' = [ pc EXCEPT ![t] = "done" ]
    /\ UNCHANGED << selected_mic, selected_model, config_file, audio_queue,
                    spawned, cb, stop_seen >>
    /\ UNCHANGED << transcribed_text, utterances >>
    /\ UNCHANGED timer_vars
    /\ UNCHANGED other_vars

\* with sd.RawInputStream(..., callback=self.audio_callback, ...): the stream
\* opens, or raises and the except and finally clauses run.
OpenStream(t) ==
    /\ pc[t] = "open"
    /\ \E opened \in BOOLEAN :
          IF opened
          THEN /\ cb' = [ cb EXCEPT ![t] = "idle" ]
               /\ pc' = [ pc EXCEPT ![t] = "loop" ]
               /\ UNCHANGED listening
          ELSE /\ listening' = FALSE
               /\ pc' = [ pc EXCEPT ![t] = "done" ]
               /\ UNCHANGED cb
    /\ UNCHANGED << selected_mic, selected_model, config_file, audio_queue,
                    spawned, stop_seen >>
    /\ UNCHANGED << transcribed_text, utterances >>
    /\ UNCHANGED timer_vars
    /\ UNCHANGED other_vars

\* while self.listening:
LoopTest(t) ==
    /\ pc[t] = "loop"
    /\ pc' = [ pc EXCEPT ![t] = IF listening THEN "get" ELSE "exit" ]
    /\ stop_seen' = [ stop_seen EXCEPT ![t] = FALSE ]
    /\ UNCHANGED << selected_mic, selected_model, config_file, listening,
                    audio_queue, spawned, cb >>
    /\ UNCHANGED << transcribed_text, utterances >>
    /\ UNCHANGED timer_vars
    /\ UNCHANGED other_vars

\* data = self.audio_queue.get(timeout=self.timeout); queue.Empty: continue
QueueGet(t) ==
    /\ pc[t] = "get"
    /\ IF audio_queue # <<>>
       THEN /\ audio_queue' = Tail(audio_queue)
            /\ pc' = [ pc EXCEPT ![t] = "accept" ]
       ELSE /\ pc' = [ pc EXCEPT ![t] = "loop" ]
            /\ UNCHANGED audio_queue
    /\ UNCHANGED << selected_mic, selected_model, config_file, listening,
                    spawned, cb, stop_seen >>
    /\ UNCHANGED << transcribed_text, utterances >>
    /\ UNCHANGED timer_vars
    /\ UNCHANGED other_vars

\* recognizer.AcceptWaveform(data) and the handling of its result (lines
\* 346-352). complete: AcceptWaveform's answer; shown: whether the call
\* self.transcribed_text_area.append(...) returned normally.
Accept(t) ==
    /\ pc[t] = "accept"
    /\ \E complete \in BOOLEAN, text \in RecognizerTexts, shown \in BOOLEAN :
          /\ text # <<>> => utterances < MaxUtterances
          /\ IF complete
             THEN /\ transcribed_text' = append_text(transcribed_text, text)
                  /\ utterances' = IF text # <<>> THEN utterances + 1 ELSE utterances
                  /\ pc' = [ pc EXCEPT ![t] = IF text # <<>> /\ ~shown
                                              THEN "exit" ELSE "loop" ]
             ELSE /\ pc' = [ pc EXCEPT ![t] = "loop" ]
                  /\ UNCHANGED << transcribed_text, utterances >>
    /\ UNCHANGED capture_vars_but_pc
    /\ UNCHANGED timer_vars
    /\ UNCHANGED other_vars

\* Leaving the with block closes the stream, once its callback has returned.
ExitStream(t) ==
    /\ pc[t] = "exit"
    /\ cb[t] = "idle"
    /\ cb' = [ cb EXCEPT ![t] = "closed" ]
    /\ pc' = [ pc EXCEPT ![t] = "finally" ]
    /\ UNCHANGED << selected_mic, selected_model, config_file, listening,
                    audio_queue, spawned, stop_seen >>
    /\ UNCHANGED << transcribed_text, utterances >>
    /\ UNCHANGED timer_vars
    /\ UNCHANGED other_vars

\* finally: self.listening = False
Finally(t) ==
    /\ pc[t] = "finally"
    /\ listening' = FALSE
    /\ pc' = [ pc EXCEPT ![t] = "done" ]
    /\ UNCHANGED << selected_mic, selected_model, config_file, audio_queue,
                    spawned, cb, stop_seen >>
    /\ UNCHANGED << transcribed_text, utterances >>
    /\ UNCHANGED timer_vars
    /\ UNCHANGED other_vars

\* audio_callback: if not self.audio_queue.full(): (else the block is dropped)
CallbackCheck(t) ==
    /\ cb[t] = "idle"
    /\ cb' = [ cb EXCEPT ![t] = IF ~full(audio_queue) THEN "put" ELSE "idle" ]
    /\ UNCHANGED << selected_mic, selected_model, config_file, listening,
                    audio_queue, spawned, pc, stop_seen >>
    /\ UNCHANGED << transcribed_text, utterances >>
    /\ UNCHANGED timer_vars
    /\ UNCHANGED other_vars

\* audio_callback: self.audio_queue.put(bytes(indata))
CallbackPut(t) ==
    /\ cb[t] = "put"
    /\ put_ready(audio_queue)
    /\ audio_queue' = Append(audio_queue, Block)
    /\ cb' = [ cb EXCEPT ![t] = "idle" ]
    /\ UNCHANGED << selected_mic, selected_model, config_file, listening,
                    spawned, pc, stop_seen >>
    /\ UNCHANGED << transcribed_text, utterances >>
    /\ UNCHANGED timer_vars
    /\ UNCHANGED other_vars

NextAudio ==
    \/ ToggleListening
    \/ \E t \in Threads :
          \/ Setup(t)
          \/ OpenStream(t)
          \/ LoopTest(t)
          \/ QueueGet(t)
          \/ Accept(t)
          \/ ExitStream(t)
          \/ Finally(t)
          \/ CallbackCheck(t)
          \/ CallbackPut(t)

SpecAudio == Init /\ [][NextAudio]_vars

\* ------------------------------------------- dump and append, step by step
\* The number of lines (finalized utterances) in a text.
Lines(text) == Cardinality({ i \in 1..Len(text) : text[i] = "\n" })

\* The number of lines in the payloads of the requests started.
RECURSIVE PayloadLines(_)
PayloadLines(threads) ==
    IF threads = <<>>
    THEN 0
    ELSE Lines(Head(threads).messages[1].content) + PayloadLines(Tail(threads))

\* Click on "Manually Dump", up to the guard of dump_text_to_llm (line 380).
\* With a false guard the rest of the handler does not touch the buffer.
RaceDumpGuard ==
    /\ dump_pc = "idle"
    /\ Len(manual_dump(Cur).pending_ticks) <= MaxPending
    /\ IF dump_guard(Cur)
       THEN /\ dump_pc' = "read"
            /\ UNCHANGED << time_remaining, timer_running, timer_enabled,
                            transcribed_text, pending_ticks, llm_threads,
                            auto, ticks, dumps >>
       ELSE /\ Store(manual_dump(Cur), FALSE)
            /\ UNCHANGED dump_pc
    /\ UNCHANGED << llm_log, utterances, append_pc, fn_call >>
    /\ UNCHANGED capture_vars
    /\ UNCHANGED probe_vars

\* Lines 381-384: the buffer is read into data and the request thread starts.
RaceDumpRead ==
    /\ dump_pc = "read"
    /\ llm_threads' = Append(llm_threads, dump_data(transcribed_text))
    /\ dump_pc' = "clear"
    /\ UNCHANGED << time_remaining, timer_running, timer_enabled,
                    transcribed_text, pending_ticks, llm_log, utterances,
                    auto, ticks, dumps, append_pc, fn_call >>
    /\ UNCHANGED capture_vars
    /\ UNCHANGED probe_vars

\* Line 385 and the rest of the handler (lines 386-389 and 137-139), which
\* is what manual_dump does on an empty buffer.
RaceDumpClear ==
    /\ dump_pc = "clear"
    /\ Store(manual_dump(clear_text(Cur)), FALSE)
    /\ dump_pc' = "idle"
    /\ UNCHANGED << llm_log, utterances, append_pc, fn_call >>
    /\ UNCHANGED capture_vars
    /\ UNCHANGED probe_vars

\* Click on the timer toggle button, between two handlers.
RaceToggleTimer == dump_pc = "idle" /\ ToggleTimer

\* Line 351, first half: the capture thread loads self.transcribed_text.
RaceAppendLoad ==
    /\ append_pc = <<>>
    /\ utterances < MaxUtterances
    /\ append_pc' = << transcribed_text >>
    /\ UNCHANGED << transcribed_text, utterances, dump_pc, fn_call >>
    /\ UNCHANGED timer_vars
    /\ UNCHANGED capture_vars
    /\ UNCHANGED probe_vars

\* Line 351, second half: it stores the loaded value + text + "\n".
RaceAppendStore ==
    /\ append_pc # <<>>
    /\ \E text \in RecognizerTexts \ { <<>> } :
          transcribed_text' = append_text(append_pc[1], text)
    /\ utterances' = utterances + 1
    /\ append_pc' = <<>>
    /\ UNCHANGED << dump_pc, fn_call >>
    /\ UNCHANGED timer_vars
    /\ UNCHANGED capture_vars
    /\ UNCHANGED probe_vars

NextRace ==
    \/ RaceDumpGuard
    \/ RaceDumpRead
    \/ RaceDumpClear
    \/ RaceToggleTimer
    \/ RaceAppendLoad
    \/ RaceAppendStore

SpecRace == Init /\ [][NextRace]_vars

\* ---------------------------------------------------------- endpoint prober
\* What requests.get / requests.post ends with: a response with a status
\* code, or a raised exception with its message.
ProbeOutcomes ==
    { [ kind |-> "status", code |-> 200, msg |-> "" ],
      [ kind |-> "status", code |-> 404, msg |-> "" ],
      [ kind |-> "raise",  code |-> 0,   msg |-> "Connection refused" ] }

\* Only server errors count as failures.
status_not_ok_5xx(code) == code >= 500

\* response.status_code != 200
status_not_ok(code) == code # 200

\* run_test, lines 205-225: success and error_msg for a method and the
\* outcome of the request (no request is made for another method).
run_test(method, outcome) ==
    IF method \notin { "GET", "POST" }
    THEN [ success |-> FALSE, error_msg |-> << "Unsupported method: ", method >> ]
    ELSE IF outcome.kind = "raise"
    THEN [ success |-> FALSE, error_msg |-> << outcome.msg >> ]
    ELSE IF status_not_ok(outcome.code)
    THEN [ success |-> FALSE, error_msg |-> << "Status ", ToString(outcome.code) >> ]
    ELSE [ success |-> TRUE, error_msg |-> <<>> ]

\* update_api_status: the label's new text.
update_api_status(success, error_msg) ==
    IF success THEN << "OK" >> ELSE << "Error: " >> \o error_msg

\* The re-probe is scheduled only after a successful probe.
probe_reschedules_on_success(success) == success

\* PyQtTimer.singleShot(600000, ...) is reached whatever the outcome.
probe_reschedules(success) == TRUE

\* run_test up to self.update_api_status(index, success, error_msg).
ProbeRun(e) ==
    /\ \E i \in 1..Len(probes[e]), outcome \in ProbeOutcomes :
          /\ probes[e][i].pc = "request"
          /\ LET r == run_test(API_ENDPOINTS[e].method, outcome)
             IN  /\ api_status' = [ api_status EXCEPT
                                      ![e] = update_api_status(r.success, r.error_msg) ]
                 /\ probes' = [ probes EXCEPT
                                  ![e][i] = [ pc |-> "schedule", success |-> r.success ] ]
          /\ probe_seen' = [ probe_seen EXCEPT ![e] = << outcome >> ]
    /\ UNCHANGED << probe_timers, transcribed_text, utterances, fn_call >>
    /\ UNCHANGED timer_vars
    /\ UNCHANGED capture_vars
    /\ UNCHANGED race_vars

\* run_test's last statement: the single-shot for the next test_endpoint;
\* the thread then ends.
ProbeSchedule(e) ==
    /\ \E i \in 1..Len(probes[e]) :
          /\ probes[e][i].pc = "schedule"
          /\ probe_timers' = [ probe_timers EXCEPT
                                 ![e] = IF probe_reschedules(probes[e][i].success)
                                        THEN @ + 1 ELSE @ ]
          /\ probes' = [ probes EXCEPT ![e] = RemoveAt(@, i) ]
    /\ UNCHANGED << api_status, probe_seen, transcribed_text, utterances, fn_call >>
    /\ UNCHANGED timer_vars
    /\ UNCHANGED capture_vars
    /\ UNCHANGED race_vars

\* The single-shot fires: test_endpoint starts a new run_test thread.
ProbeFire(e) ==
    /\ probe_timers[e] > 0
    /\ Len(probes[e]) < MaxProbes
    /\ probe_timers' = [ probe_timers EXCEPT ![e] = @ - 1 ]
    /\ probes' = [ probes EXCEPT ![e] = Append(@, NewProbe) ]
    /\ UNCHANGED << api_status, probe_seen, transcribed_text, utterances, fn_call >>
    /\ UNCHANGED timer_vars
    /\ UNCHANGED capture_vars
    /\ UNCHANGED race_vars

NextProbe ==
    \E e \in Endpoints : ProbeRun(e) \/ ProbeSchedule(e) \/ ProbeFire(e)

SpecProbe == Init /\ [][NextProbe]_vars

\* ------------------------------------------------------- LLM request paths
\* {}
EmptyDict == [ key \in {} |-> <<>> ]

\* The content of a well-formed answer.
Content == << "h", "i" >>

\* response.json() for the bodies a 200 response may carry: a well-formed
\* answer, an object without "choices", one with an empty "choices" list,
\* and one whose first choice has no "message".
BodyNames == { "content", "no_choices", "empty_choices", "no_message" }

Body(name) ==
    CASE name = "content"       ->
             [ choices |-> << [ message |-> [ content |-> Content ] ] >> ]
      [] name = "no_choices"    -> [ object |-> "error" ]
      [] name = "empty_choices" -> [ choices |-> <<>> ]
      [] name = "no_message"    -> [ choices |-> << [ index |-> "0" ] >> ]

\* What requests.post(LLM_API_URL, json=data) ends with: a response (status
\* code and body; "not_json" is a body response.json() cannot parse) or a
\* raised exception with its message.
LlmResponses ==
    { [ kind |-> "status", code |-> 200, body |-> b, msg |-> "" ] :
          b \in BodyNames \cup { "not_json" } }
    \cup { [ kind |-> "status", code |-> c, body |-> "not_json", msg |-> "" ] :
          c \in { 404, 500 } }
    \cup { [ kind |-> "raise", code |-> 0, body |-> "not_json", msg |-> m ] :
          m \in { "Connection refused", "Read timed out" } }

\* result.get("choices", [{}])
choices(result) == dict_get(result, "choices", << EmptyDict >>)

\* result.get("choices", [{}])[0].get("message", {}).get("content", "")
useful_info(result) ==
    dict_get(dict_get(choices(result)[1], "message", EmptyDict), "content", <<>>)

\* An exception is raised inside the try block.
raise(call, message) == [ call EXCEPT !.raised = << message >> ]

\* One call of the sink for messages: self.log(...) on the GUI path, the
\* callback (if any) of extract_useful_info; a raising callback has been
\* invoked when its exception leaves it.
emit(call, message) ==
    IF call.cb = "none"
    THEN call
    ELSE [ call EXCEPT !.result = Append(@, message),
                       !.raised = IF call.cb = "raises"
                                  THEN << "callback failed" >>
                                  ELSE @ ]

\* One error text for every exception.
send_error_fixed(message) == << "Error in LLM API request." >>

\* f"Error sending to LLM: {e}"
send_error(message) == << "Error sending to LLM: ", message >>

\* The try block of make_request (both paths).
try_block(call) ==
    IF call.resp.kind = "raise"
    THEN raise(call, call.resp.msg)
    ELSE IF call.resp.code = 200
    THEN IF call.resp.body = "not_json"
         THEN raise(call, "Expecting value")
         ELSE IF Len(choices(Body(call.resp.body))) = 0
         THEN raise(call, "list index out of range")
         ELSE IF call.path = "gui"
         THEN LET logged == emit(call, << "Useful information extracted:\n" >>
                                       \o useful_info(Body(call.resp.body)))
              IN  IF call.shown
                  THEN logged
                  ELSE raise(logged, "no attribute 'append'")
         ELSE emit(call, useful_info(Body(call.resp.body)))
    ELSE emit(call, << "Error in LLM API request." >>)

\* except Exception as e: the exception raised in the try block is
\* reported through the same sink.
except_block(call) ==
    IF call.raised = <<>>
    THEN call
    ELSE emit([ call EXCEPT !.raised = <<>> ], send_error(call.raised[1]))

make_request(call) == except_block(try_block(call))

\* A request thread starts on one of the two paths: request_llm_in_thread
\* (messages go to self.log, then the pane is appended to) or
\* extract_useful_info (no callback, a callback that returns, or one that
\* raises).
LlmCall ==
    /\ fn_call = <<>>
    /\ \E path \in { "gui", "extract" }, resp \in LlmResponses,
          callback \in { "none", "ok", "raises" }, shown \in BOOLEAN :
          /\ path = "gui" => callback = "ok"
          /\ path = "extract" => shown
          /\ fn_call' = << [ path |-> path, resp |-> resp, cb |-> callback,
                             shown |-> shown, result |-> <<>>,
                             raised |-> <<>>, done |-> FALSE ] >>
    /\ UNCHANGED << transcribed_text, utterances >>
    /\ UNCHANGED timer_vars
    /\ UNCHANGED capture_vars
    /\ UNCHANGED race_vars
    /\ UNCHANGED probe_vars

\* The thread runs make_request to its end.
LlmFinish ==
    /\ fn_call # <<>>
    /\ ~fn_call[1].done
    /\ fn_call' = << [ make_request(fn_call[1]) EXCEPT !.done = TRUE ] >>
    /\ UNCHANGED << transcribed_text, utterances >>
    /\ UNCHANGED timer_vars
    /\ UNCHANGED capture_vars
    /\ UNCHANGED race_vars
    /\ UNCHANGED probe_vars

\* The finished thread is gone; another request may start.
LlmReturn ==
    /\ fn_call # <<>>
    /\ fn_call[1].done
    /\ fn_call' = <<>>
    /\ UNCHANGED << transcribed_text, utterances >>
    /\ UNCHANGED timer_vars
    /\ UNCHANGED capture_vars
    /\ UNCHANGED race_vars
    /\ UNCHANGED probe_vars

NextLlm == LlmCall \/ LlmFinish \/ LlmReturn

SpecLlm == Init /\ [][NextLlm]_vars

TypeOK ==
    /\ time_remaining \in 0..dump_interval
    /\ timer_running \in BOOLEAN
    /\ timer_enabled \in BOOLEAN
    /\ Len(pending_ticks) <= MaxPending
    /\ utterances \in 0..MaxUtterances
    /\ listening \in BOOLEAN
    /\ spawned \in 0..MaxThreads
    /\ \A t \in Threads : cb[t] \in { "closed", "idle", "put" }

\* ------------------------------------------------------------------ claims
\* A tick that makes the countdown expire, and so calls dump_text_to_llm.
Expiry == Tick /\ timer_running /\ timer_enabled /\ time_remaining - 1 <= 0

\* C1: a dump (by countdown expiry or by manual_dump) of a non-empty buffer B
\* starts exactly one request whose single message content is B and leaves
\* the buffer empty; a request that finishes, whatever its outcome, leaves
\* the buffer as it is.
C1_DumpSendsAndClears ==
    /\ [][ ((ManualDump \/ Expiry) /\ transcribed_text # <<>>)
           => /\ transcribed_text' = <<>>
              /\ Len(llm_threads') = Len(llm_threads) + 1
              /\ SubSeq(llm_threads', 1, Len(llm_threads)) = llm_threads
              /\ Len(llm_threads'[Len(llm_threads')].messages) = 1
              /\ llm_threads'[Len(llm_threads')].messages[1].content = transcribed_text
         ]_vars
    /\ [][ LlmResponse => transcribed_text' = transcribed_text ]_vars

\* A request has failed, another dumped text is in flight, the buffer is empty.
C1_Witness ==
    /\ transcribed_text = <<>>
    /\ llm_log = << "Error in LLM API request." >>
    /\ llm_threads # <<>>
    /\ llm_threads[1].messages[1].content # <<>>

\* C2 (as claimed): from launch, without manual dump or toggle, no dump
\* happens before the N-th decrement, the N-th decrement triggers exactly one
\* dump, and after the step that dumped time_remaining equals N.
C2_Claim ==
    /\ [](auto /\ ticks < dump_interval => dumps = 0)
    /\ [][ (auto' /\ dumps' > dumps)
           => /\ dumps = 0 => ticks = dump_interval - 1
              /\ dumps' = dumps + 1
              /\ time_remaining' = dump_interval
         ]_vars

\* C3 (as claimed): at most one scheduled update_timer call is pending.
C3_Claim == Len(pending_ticks) <= 1

\* C4: manual_dump, with the timer enabled or disabled and at any countdown
\* value, dumps as dump_text_to_llm does (a non-empty buffer is sent and
\* cleared) and leaves time_remaining equal to the dump interval.
C4_ManualDumpResets ==
    [][ ManualDump
        => /\ time_remaining' = dump_interval
           /\ transcribed_text' = dump_text_to_llm(Cur).transcribed_text
           /\ llm_threads' = dump_text_to_llm(Cur).llm_threads
           /\ transcribed_text # <<>>
                => /\ transcribed_text' = <<>>
                   /\ llm_threads' = Append(llm_threads, dump_data(transcribed_text))
      ]_vars

\* A manual dump has sent the buffer while the timer was disabled: only
\* manual_dump leaves a disabled timer at the full interval.
C4_Witness ==
    /\ ~timer_enabled
    /\ time_remaining = dump_interval
    /\ transcribed_text = <<>>
    /\ llm_threads # <<>>

\* C5 (as claimed): the toggle_timer call that enables the timer leaves
\* time_remaining equal to the dump interval.
C5_Claim ==
    [][ (ToggleTimer /\ ~timer_enabled) => time_remaining' = dump_interval ]_vars

\* C6 (as claimed): a tick scheduled before a toggle-off, when it fires,
\* does not decrement time_remaining, does not dump and schedules no tick.
C6_Claim ==
    [][ (pending_ticks # <<>> /\ Head(pending_ticks) = "stale" /\ Tick)
        => /\ time_remaining' = time_remaining
           /\ pending_ticks' = Tail(pending_ticks)
           /\ llm_threads' = llm_threads
           /\ transcribed_text' = transcribed_text
      ]_vars

\* C7 (as claimed): manual_dump twice in a row leaves the same buffer, the
\* same time_remaining, the same number of requests and the same number of
\* pending ticks as manual_dump once.
C7_Claim ==
    LET once  == manual_dump(Cur)
        twice == manual_dump(once)
    IN  /\ twice.transcribed_text = once.transcribed_text
        /\ twice.time_remaining = once.time_remaining
        /\ Len(twice.llm_threads) = Len(once.llm_threads)
        /\ Len(twice.pending_ticks) = Len(once.pending_ticks)

\* C8: the audio queue never holds more than 20 blocks, under every
\* interleaving of the callbacks of all open streams with the capture loops.
C8_QueueBounded == Len(audio_queue) <= maxsize

\* The queue is full while a callback that passed the full() test is about
\* to put its block.
C8_Witness ==
    /\ Len(audio_queue) = maxsize
    /\ \E t \in Threads : cb[t] = "put"

\* C9 (as claimed): audio_callback never waits for free space: a callback
\* that has reached its put always finds a free slot.
C9_Claim == \A t \in Threads : cb[t] = "put" => ~full(audio_queue)

\* C10 (as claimed): once a stop click has set listening to false while a
\* capture loop is streaming, that loop leaves at its next test of the flag,
\* that is after at most one further queue wait.
C10_Claim ==
    [][ \A t \in Threads :
           (LoopTest(t) /\ stop_seen[t]) => pc'[t] = "exit" ]_vars

\* C11 (as claimed): a capture attempt that ends before streaming opens no
\* input stream and leaves listening false when its thread terminates.
C11_Claim ==
    [][ \A t \in Threads :
           ((Setup(t) \/ OpenStream(t)) /\ pc'[t] \in { "done", "dead" })
           => (~listening' /\ cb'[t] = "closed") ]_vars

\* C14 (as claimed): a dump (by manual_dump or by countdown expiry) with an
\* empty buffer starts no request, leaves the buffer empty and leaves
\* time_remaining equal to the dump interval.
C14_Claim ==
    [][ ((ManualDump \/ Expiry) /\ transcribed_text = <<>>)
        => /\ llm_threads' = llm_threads
           /\ transcribed_text' = <<>>
           /\ time_remaining' = dump_interval
      ]_vars

\* C16 (as claimed): when a capture session enters its streaming loop the
\* audio queue is empty.
C16_Claim ==
    [][ \A t \in Threads :
           (OpenStream(t) /\ pc'[t] = "loop") => audio_queue = <<>> ]_vars

\* C18 (as claimed): at most one capture thread is in its streaming loop,
\* and the teardown of a capture thread does not set listening to false
\* while a session started after it holds the flag true.
C18_Claim ==
    /\ [](Cardinality({ t \in Threads : pc[t] \in Streaming }) <= 1)
    /\ [][ \A t \in Threads :
              (Finally(t) /\ t < spawned /\ listening) => listening' ]_vars

\* C19 (as claimed): what load_config reads from the file save_config wrote
\* is the microphone and the model that were saved.
C19_Claim ==
    config_file # <<>>
    => /\ saved_mic(config_file[1]) = selected_mic
       /\ saved_model(config_file[1]) = selected_model

\* C12: the posted status of an endpoint is OK exactly when the response
\* status is 200; for another status, a raised exception or an unsupported
\* method it is an error text that contains the status code, the exception
\* message or the method.
Contains(label, part) == \E i \in 1..Len(label) : label[i] = part

C12_ProbeStatus ==
    /\ \A e \in Endpoints :
          probe_seen[e] # <<>>
          => LET o == probe_seen[e][1]
             IN  /\ api_status[e] = << "OK" >>
                      <=> (o.kind = "status" /\ o.code = 200)
                 /\ (o.kind = "status" /\ o.code # 200)
                      => /\ Head(api_status[e]) = "Error: "
                         /\ Contains(api_status[e], ToString(o.code))
                 /\ o.kind = "raise"
                      => /\ Head(api_status[e]) = "Error: "
                         /\ Contains(api_status[e], o.msg)
    /\ \A method \in { "PUT", "DELETE" }, o \in ProbeOutcomes :
          LET r == run_test(method, o)
              label == update_api_status(r.success, r.error_msg)
          IN  /\ Head(label) = "Error: "
              /\ Contains(label, method)

\* One endpoint is OK, one shows a status error, one shows an exception.
C12_Witness ==
    /\ \E e \in Endpoints : api_status[e] = << "OK" >>
    /\ \E e \in Endpoints : api_status[e] = << "Error: ", "Status ", "404" >>
    /\ \E e \in Endpoints : api_status[e] = << "Error: ", "Connection refused" >>

\* C15: per endpoint at most one probe is in flight, a probe in flight and
\* a scheduled re-probe exclude each other and one of them always exists
\* (every probe is followed by exactly one re-probe), and a re-probe is
\* scheduled only after the probe's status has been posted.
C15_ProbeCycles ==
    /\ [](\A e \in Endpoints :
             /\ Len(probes[e]) <= 1
             /\ Len(probes[e]) + probe_timers[e] = 1)
    /\ [][ \A e \in Endpoints :
              probe_timers'[e] > probe_timers[e]
              => /\ probe_timers'[e] = probe_timers[e] + 1
                 /\ probe_seen[e] # <<>>
                 /\ api_status[e] # << "Checking..." >>
         ]_vars

\* A re-probe is scheduled after a failed probe whose error is posted.
C15_Witness ==
    \E e \in Endpoints :
       /\ probe_timers[e] = 1
       /\ probes[e] = <<>>
       /\ Head(api_status[e]) = "Error: "

\* C17 (as claimed): between dumps every finalized utterance is in exactly
\* one payload or still in the buffer: none is lost, none is there twice.
C17_Claim ==
    dump_pc = "idle"
    => Lines(transcribed_text) + PayloadLines(llm_threads) = utterances

\* A finished request whose messages had somewhere to go.
Finished == fn_call # <<>> /\ fn_call[1].done /\ fn_call[1].cb # "none"

\* The request failed: a status other than 200 or a raised exception.
Failed(resp) == resp.kind = "raise" \/ resp.code # 200

\* The messages the request would have produced with another response.
ResultFor(resp) ==
    make_request([ fn_call[1] EXCEPT !.resp = resp, !.result = <<>>,
                                     !.raised = <<>>, !.done = FALSE ]).result

\* C13 (as claimed): on both request paths every failure, whatever the
\* status code or the exception, yields the same fixed error text, and a
\* 200 response yields the value at choices[0].message.content.
C13_Claim ==
    Finished
    => /\ Failed(fn_call[1].resp)
            => \A other \in LlmResponses :
                  Failed(other) => ResultFor(other) = fn_call[1].result
       /\ (fn_call[1].resp.code = 200 /\ fn_call[1].resp.body = "content")
            => Contains(fn_call[1].result,
                        IF fn_call[1].path = "gui"
                        THEN << "Useful information extracted:\n" >> \o Content
                        ELSE Content)

\* C13 (amended): on both paths a status other than 200 yields the fixed
\* text "Error in LLM API request." whatever the code; a raised exception
\* (transport, unparsable body, empty choices) yields "Error sending to
\* LLM: " followed by the exception's message; a 200 response with a
\* well-formed body yields the value at choices[0].message.content.
C13_ErrorTexts ==
    Finished
    => LET resp == fn_call[1].resp
           first == Head(fn_call[1].result)
       IN  /\ fn_call[1].result # <<>>
           /\ (resp.kind = "status" /\ resp.code # 200)
                => first = << "Error in LLM API request." >>
           /\ resp.kind = "raise"
                => first = << "Error sending to LLM: ", resp.msg >>
           /\ (resp.kind = "status" /\ resp.code = 200
                 /\ resp.body \in { "not_json", "empty_choices" })
                => /\ Len(first) = 2
                   /\ first[1] = "Error sending to LLM: "
           /\ (resp.kind = "status" /\ resp.code = 200 /\ resp.body = "content")
                => first = IF fn_call[1].path = "gui"
                           THEN << "Useful information extracted:\n" >> \o Content
                           ELSE Content

\* A transport exception has been reported with its message.
C13_Witness ==
    /\ Finished
    /\ fn_call[1].resp.kind = "raise"
    /\ fn_call[1].result = << << "Error sending to LLM: ", "Read timed out" >> >>

\* C20 (as claimed): a finished extract_useful_info call with a callback
\* has invoked the callback exactly once, also when the callback raises.
C20_Claim ==
    (Finished /\ fn_call[1].path = "extract") => Len(fn_call[1].result) = 1
====
